---- MODULE Spec2Model ----
(***************************************************************************)
(* Nigeria economic dashboard: the data preparation routine                *)
(* (nigeria_data_processor.py) and the Streamlit presentation layer        *)
(* (nigeria_dashboard_app.py).                                             *)
(*                                                                         *)
(* Number representation.  A float64 cell is modelled as a fixed-point     *)
(* decimal with two fractional digits: [k |-> "num", w |-> whole part      *)
(* (floor), c |-> hundredths 0..99], value w + c/100.  The other kinds     *)
(* are "nan" (missing value), "str" (a CSV cell that is no number),        *)
(* "none" (Python None) and "ratio" (w/c, a quotient produced by the       *)
(* min-max normalisation).  Arithmetic on the represented values is exact, *)
(* as float64 arithmetic is on the magnitudes used.                        *)
(***************************************************************************)
EXTENDS Integers, Sequences, FiniteSets, TLC

VARIABLES
    file,          \* the CSV file: [headers, rows]; never written
    pc,            \* position of the running script / harness
    df,            \* load_and_process_data's local DataFrame
    error,         \* the exception that ended the run ("" when none)
    cache,         \* st.cache_data entry of load_and_process_data_cached
    first_table,   \* history: what the first load_and_process_data returned
    data,          \* main's `data`
    display_df,    \* main's `display_df`
    line_data,     \* display_dashboard's `line_data`
    widgets,       \* keys of the widgets that hold session state
    start_year,    \* state of the "Start Year" slider
    end_year,      \* state of the "End Year" slider
    indicator,     \* state of the "Indicator" selectbox
    x_indicator,   \* state of the X-axis selectbox
    y_indicator,   \* state of the Y-axis selectbox
    entered,       \* display_dashboard was entered in this run
    validation,    \* the st.error of the validation gate was shown in this run
    views,         \* the views rendered in this run
    metrics,       \* Tab 2 output: the two headline metrics and the delta
    arg,           \* harness: the argument of the function under check
    ret            \* harness: its result

vars == <<file, pc, df, error, cache, first_table, data, display_df, line_data, widgets,
          start_year, end_year, indicator, x_indicator, y_indicator,
          entered, validation, views, metrics, arg, ret>>

-----------------------------------------------------------------------------
(* Numbers *)

Num(w, c) == [k |-> "num", w |-> w, c |-> c]

Whole(w) == Num(w, 0)

NaN == [k |-> "nan", w |-> 0, c |-> 0]

None == [k |-> "none", w |-> 0, c |-> 0]

Junk == [k |-> "str", w |-> 0, c |-> 0]

Ratio(n, d) == [k |-> "ratio", w |-> n, c |-> d]

IsNum(x) == x.k = "num"

\* x == 0 for a float64 cell (NaN == 0 is False)
IsZero(x) == x.k = "num" /\ x.w = 0 /\ x.c = 0

\* the value in hundredths (small magnitudes only)
Hund(x) == x.w * 100 + x.c

Abs(n) == IF n < 0 THEN -n ELSE n

\* round(n / d) for d > 0, ties to even: what Python's format does at an
\* exactly representable tie
RoundDiv(n, d) ==
    LET q == n \div d
        r == n % d
    IN  IF 2 * r < d THEN q
        ELSE IF 2 * r > d THEN q + 1
        ELSE IF q % 2 = 0 THEN q ELSE q + 1

RECURSIVE Digits(_)
\* the decimal digits of a natural number
Digits(n) ==
    LET d == <<"0", "1", "2", "3", "4", "5", "6", "7", "8", "9">>[(n % 10) + 1]
    IN  IF n < 10 THEN <<d>> ELSE Append(Digits(n \div 10), d)

\* Python's f"{v:.2f}" for a value already rounded to h hundredths
Fixed2(h) ==
    LET a == Abs(h)
        f == a % 100
    IN  (IF h < 0 THEN <<"-">> ELSE <<>>) \o Digits(a \div 100) \o <<".">>
        \o Digits(f \div 10) \o Digits(f % 10)

-----------------------------------------------------------------------------
(* nigeria_data_processor.py *)

RenameFrom ==
    << "Year",
       "Fertility Rate",
       "GDP (current US$)",
       "GDP Growth (annual %)",
       "Life Expectancy (Years)",
       "Female Population (% Total)",
       "Male Population (% Total)",
       "Population Growth (annual %)",
       "Urban Population Growth (annual %)",
       "Rural Population Growth (annual %)",
       "Employment to population ratio, 15+, total (%) ",
       "Employment to population ratio, 15+, male (%) ",
       "Employment to population ratio, 15+, female (%)",
       "Unemployment, female (% of female labor force) ",
       "Unemployment, male (% of male labor force)",
       "Unemployment, total (% of total labor force) " >>

RenameTo ==
    << "Year",
       "Fertility Rate",
       "GDP (US$)",
       "GDP Growth (%)",
       "Life Expectancy",
       "Female Population (%)",
       "Male Population (%)",
       "Population Growth (%)",
       "Urban Growth (%)",
       "Rural Growth (%)",
       "Employment Ratio (%)",
       "Male Employment (%)",
       "Female Employment (%)",
       "Female Unemployment (%)",
       "Male Unemployment (%)",
       "Unemployment (%)" >>

\* the dict rename_columns applied to one header; an unmapped header passes
rename_columns(h) ==
    IF \E i \in DOMAIN RenameFrom : RenameFrom[i] = h
    THEN RenameTo[CHOOSE i \in DOMAIN RenameFrom : RenameFrom[i] = h]
    ELSE h

\* the keys of the dict convert_dtype
convert_dtype ==
    { "Year",
      "Fertility Rate",
      "GDP (US$)",
      "GDP Growth (%)",
      "Life Expectancy",
      "Female Population (%)",
      "Male Population (%)",
      "Population Growth",
      "Urban Growth (%)",
      "Rural Growth (%)",
      "Employment Ratio (%)",
      "Male Employment (%)",
      "Female Employment (%)",
      "Female Unemployment (%)",
      "Male Unemployment (%)",
      "Unemployment (%)" }

Range(s) == { s[i] : i \in DOMAIN s }

NoFrame == [cols |-> <<>>, rows |-> <<>>]

Ok(frame) == [err |-> "", df |-> frame]

Raise(e) == [err |-> e, df |-> NoFrame]

\* pd.read_csv: one row per line, keyed by the file's headers; the first
\* column is the year, whose cell is kept as the string str(x) gives
ReadCsv(f) ==
    [cols |-> f.headers,
     rows |-> [i \in DOMAIN f.rows |->
                 [Year |-> f.rows[i].year,
                  v |-> [h \in Range(f.headers) \ {f.headers[1]} |->
                           IF h = f.headers[3] THEN f.rows[i].gdp
                           ELSE f.rows[i].other]]]]

\* df.rename(columns=rename_columns, inplace=True)
RenameColumns(d) ==
    [cols |-> [i \in DOMAIN d.cols |-> rename_columns(d.cols[i])],
     rows |-> [i \in DOMAIN d.rows |->
                 [Year |-> d.rows[i].Year,
                  v |-> [c \in { rename_columns(h) : h \in DOMAIN d.rows[i].v } |->
                           d.rows[i].v[CHOOSE h \in DOMAIN d.rows[i].v :
                                          rename_columns(h) = c]]]]]

DigitChars == {"0", "1", "2", "3", "4", "5", "6", "7", "8", "9"}

DigitVal(ch) ==
    CHOOSE n \in 0..9 :
        <<"0", "1", "2", "3", "4", "5", "6", "7", "8", "9">>[n + 1] = ch

\* str(x)[-4:]
Last4(s) == IF Len(s) <= 4 THEN s ELSE SubSeq(s, Len(s) - 3, Len(s))

RECURSIVE Strip(_)
\* str.strip(), as int() applies it to its argument
Strip(s) ==
    IF s = <<>> THEN s
    ELSE IF Head(s) = " " THEN Strip(Tail(s))
    ELSE IF s[Len(s)] = " " THEN Strip(SubSeq(s, 1, Len(s) - 1))
    ELSE s

RECURSIVE DigitsValue(_)
\* the value of a literal of digits and underscores
DigitsValue(s) ==
    IF s = <<>> THEN 0
    ELSE IF s[Len(s)] = "_" THEN DigitsValue(SubSeq(s, 1, Len(s) - 1))
    ELSE DigitsValue(SubSeq(s, 1, Len(s) - 1)) * 10 + DigitVal(s[Len(s)])

\* the digit part of an integer literal: digits, single underscores between
IsLiteral(s) ==
    /\ s # <<>>
    /\ \A i \in DOMAIN s : s[i] \in DigitChars \cup {"_"}
    /\ s[1] # "_"
    /\ s[Len(s)] # "_"
    /\ \A i \in 1..(Len(s) - 1) : ~(s[i] = "_" /\ s[i + 1] = "_")

\* Python's int(s) of a string: [ok, n]; not ok is ValueError
PyInt(s) ==
    LET t == Strip(s)
        signed == t # <<>> /\ Head(t) \in {"+", "-"}
        body == IF signed THEN Tail(t) ELSE t
    IN  IF IsLiteral(body)
        THEN [ok |-> TRUE,
              n |-> IF signed /\ Head(t) = "-" THEN -DigitsValue(body)
                    ELSE DigitsValue(body)]
        ELSE [ok |-> FALSE, n |-> 0]

\* lambda x: int(str(x)[-4:])
YearOf(s) == PyInt(Last4(s))

\* df["Year"] = df["Year"].apply(lambda x: int(str(x)[-4:]))
NormalizeYear(d) ==
    IF \E i \in DOMAIN d.rows : ~YearOf(d.rows[i].Year).ok
    THEN Raise("ValueError")
    ELSE Ok([cols |-> d.cols,
             rows |-> [i \in DOMAIN d.rows |->
                         [Year |-> YearOf(d.rows[i].Year).n, v |-> d.rows[i].v]]])

\* df = df.astype(convert_dtype): every key must be a column, and every
\* cell of a float64 column must parse as a float
AsType(d) ==
    IF \E key \in convert_dtype : key \notin Range(d.cols)
    THEN Raise("KeyError")
    ELSE IF \E i \in DOMAIN d.rows : \E c \in DOMAIN d.rows[i].v :
              c \in convert_dtype /\ d.rows[i].v[c].k = "str"
    THEN Raise("ValueError")
    ELSE Ok(d)

\* float(f"{x:.0f}")
Round0(x) ==
    IF ~IsNum(x) THEN x
    ELSE IF x.c < 50 THEN Whole(x.w)
    ELSE IF x.c > 50 THEN Whole(x.w + 1)
    ELSE IF x.w % 2 = 0 THEN Whole(x.w) ELSE Whole(x.w + 1)

\* df['GDP (US$)'] = df['GDP (US$)'].apply(lambda x: float(f"{x:.0f}"))
FormatGdp(d) ==
    [cols |-> d.cols,
     rows |-> [i \in DOMAIN d.rows |->
                 [Year |-> d.rows[i].Year,
                  v |-> [c \in DOMAIN d.rows[i].v |->
                           IF c = "GDP (US$)" THEN Round0(d.rows[i].v[c])
                           ELSE d.rows[i].v[c]]]]]

MaskYear == 2023

\* the mask without its year condition
MaskedCell_any_year(year, x) == IsZero(x)

\* the mask (df["Year"] == 2023) & (df[column] == 0) of one cell
MaskedCell(year, x) == year = MaskYear /\ IsZero(x)

\* for column in df.columns: if column != "Year": df.loc[mask, column] = nan
MaskZeros(d) ==
    [cols |-> d.cols,
     rows |-> [i \in DOMAIN d.rows |->
                 [Year |-> d.rows[i].Year,
                  v |-> [c \in DOMAIN d.rows[i].v |->
                           IF MaskedCell(d.rows[i].Year, d.rows[i].v[c])
                           THEN NaN ELSE d.rows[i].v[c]]]]]

\* the table before the masking loop, or the exception raised on the way
BeforeMask(f) ==
    LET y == NormalizeYear(RenameColumns(ReadCsv(f)))
        a == IF y.err = "" THEN AsType(y.df) ELSE y
    IN  IF a.err = "" THEN Ok(FormatGdp(a.df)) ELSE a

\* load_and_process_data as a whole
load_and_process_data(f) ==
    LET b == BeforeMask(f)
    IN  IF b.err = "" THEN Ok(MaskZeros(b.df)) ELSE b

-----------------------------------------------------------------------------
(* nigeria_dashboard_app.py: helpers *)

\* the comparison made inclusive
end_before_start_inclusive(s, e) == s >= e

end_before_start(s, e) == s > e

Billion == 1000000000

Million == 1000000

Thousand == 1000

\* f"{value / unit:.2f}" in hundredths, for value >= unit; u is unit / 100.
\* The quotient is rounded to the nearest hundredth, an exact tie to even.
Scaled(x, u) ==
    LET q == x.w \div u
        r == x.w % u
    IN  IF 2 * r < u THEN q
        ELSE IF 2 * r > u \/ x.c > 0 THEN q + 1
        ELSE IF q % 2 = 0 THEN q ELSE q + 1

\* the thresholds made exclusive
format_large_numbers_exclusive(value) ==
    IF ~IsNum(value) THEN [txt |-> <<"n", "a", "n">>, suffix |-> ""]
    ELSE IF value.w > Billion \/ (value.w = Billion /\ value.c > 0)
    THEN [txt |-> Fixed2(Scaled(value, Billion \div 100)), suffix |-> " Billion"]
    ELSE IF value.w > Million \/ (value.w = Million /\ value.c > 0)
    THEN [txt |-> Fixed2(Scaled(value, Million \div 100)), suffix |-> " Million"]
    ELSE IF value.w > Thousand \/ (value.w = Thousand /\ value.c > 0)
    THEN [txt |-> Fixed2(Scaled(value, Thousand \div 100)), suffix |-> " Thousand"]
    ELSE [txt |-> Fixed2(Hund(value)), suffix |-> ""]

\* format_large_numbers(value) for a float: [txt, suffix], the string being
\* txt followed by suffix.  Every comparison with NaN is False.
format_large_numbers(value) ==
    IF ~IsNum(value) THEN [txt |-> <<"n", "a", "n">>, suffix |-> ""]
    ELSE IF value.w >= Billion
    THEN [txt |-> Fixed2(Scaled(value, Billion \div 100)), suffix |-> " Billion"]
    ELSE IF value.w >= Million
    THEN [txt |-> Fixed2(Scaled(value, Million \div 100)), suffix |-> " Million"]
    ELSE IF value.w >= Thousand
    THEN [txt |-> Fixed2(Scaled(value, Thousand \div 100)), suffix |-> " Thousand"]
    ELSE [txt |-> Fixed2(Hund(value)), suffix |-> ""]

\* the numerator of a cell; the cells of one column share their denominator
\* (100 for table values, the range for an already normalised column)
Numer(x) == IF x.k = "ratio" THEN x.w ELSE Hund(x)

IsValue(x) == x.k \in {"num", "ratio"}

\* data[indicator]
Column(d, c) == [i \in DOMAIN d.rows |-> d.rows[i].v[c]]

\* data[indicator].min() and .max() skip NaN
Numers(col) == { Numer(col[i]) : i \in { j \in DOMAIN col : IsValue(col[j]) } }

MinOf(S) == CHOOSE m \in S : \A n \in S : m <= n

MaxOf(S) == CHOOSE m \in S : \A n \in S : m >= n

\* the quotient taken by max_val instead of max_val - min_val
min_max_normalize_by_max(d, c) ==
    LET col == Column(d, c)
        S == Numers(col)
    IN  IF S = {} THEN [i \in DOMAIN col |-> NaN]
        ELSE IF MaxOf(S) - MinOf(S) = 0 THEN col
        ELSE [i \in DOMAIN col |->
                IF IsValue(col[i])
                THEN Ratio(Numer(col[i]) - MinOf(S), MaxOf(S))
                ELSE NaN]

\* min_max_normalize(data, indicator)
min_max_normalize(d, c) ==
    LET col == Column(d, c)
        S == Numers(col)
    IN  IF S = {} THEN [i \in DOMAIN col |-> NaN]
        ELSE IF MaxOf(S) - MinOf(S) = 0 THEN col
        ELSE [i \in DOMAIN col |->
                IF IsValue(col[i])
                THEN Ratio(Numer(col[i]) - MinOf(S), MaxOf(S) - MinOf(S))
                ELSE NaN]

\* data[(data["Year"] >= start_year) & (data["Year"] <= end_year)]
FilterYears(d, s, e) ==
    LET InRange(row) == row.Year >= s /\ row.Year <= e
    IN  [cols |-> d.cols, rows |-> SelectSeq(d.rows, InRange)]

\* frame[c] = col
SetColumn(d, c, col) ==
    [cols |-> d.cols,
     rows |-> [i \in DOMAIN d.rows |->
                 [Year |-> d.rows[i].Year,
                  v |-> [k \in DOMAIN d.rows[i].v |->
                           IF k = c THEN col[i] ELSE d.rows[i].v[k]]]]]

\* [col for col in data.columns if col != "Year"]
IndicatorOptions(d) ==
    LET NotYear(c) == c # "Year"
    IN  SelectSeq(d.cols, NotYear)

\* data.loc[data["Year"] == year, indicator].values, then [0] or None
ValueAt(d, year, c) ==
    LET hits == { i \in DOMAIN d.rows : d.rows[i].Year = year }
    IN  IF hits = {} THEN None
        ELSE d.rows[CHOOSE i \in hits : \A j \in hits : i <= j].v[c]

\* delta = None if initial_value is None
\*         else f"{((final_value - initial_value) / initial_value * 100):.2f}%"
\* numpy division: x / 0 is inf or -inf, 0 / 0 and anything with NaN is nan
Delta(initial, final) ==
    IF initial.k = "none" THEN [k |-> "none", txt |-> <<>>]
    ELSE IF ~IsNum(initial) \/ ~IsNum(final)
    THEN [k |-> "nan", txt |-> <<"n", "a", "n", "%">>]
    ELSE LET i == Hund(initial)
             dd == Hund(final) - i
         IN  IF i = 0
             THEN IF dd = 0 THEN [k |-> "nan", txt |-> <<"n", "a", "n", "%">>]
                  ELSE IF dd > 0 THEN [k |-> "inf", txt |-> <<"i", "n", "f", "%">>]
                  ELSE [k |-> "-inf", txt |-> <<"-", "i", "n", "f", "%">>]
             ELSE [k |-> "pct",
                   txt |-> Fixed2(IF i > 0 THEN RoundDiv(dd * 10000, i)
                                  ELSE RoundDiv((-dd) * 10000, -i)) \o <<"%">>]

\* str(n)
Str(n) == (IF n < 0 THEN <<"-">> ELSE <<>>) \o Digits(Abs(n))

\* display_df = data.copy(); display_df["Year"] = display_df["Year"].astype(str)
\* returns the two frames as they are afterwards
Expander(d) ==
    [data |-> d,
     display_df |-> [cols |-> d.cols,
                     rows |-> [i \in DOMAIN d.rows |->
                                 [Year |-> Str(d.rows[i].Year),
                                  v |-> d.rows[i].v]]]]

\* line_data = data: no filtered copy, the two columns are written into data
Relationship_in_place(d, s, e, x, y) ==
    LET l1 == SetColumn(d, x, min_max_normalize(d, x))
        l2 == SetColumn(l1, y, min_max_normalize(l1, y))
    IN  [data |-> l2, line_data |-> l2]

\* line_data = data[...].copy(); line_data[x] = ...; line_data[y] = ...
\* returns the two frames as they are afterwards
Relationship(d, s, e, x, y) ==
    LET l0 == FilterYears(d, s, e)
        l1 == SetColumn(l0, x, min_max_normalize(l0, x))
        l2 == SetColumn(l1, y, min_max_normalize(l1, y))
    IN  [data |-> d, line_data |-> l2]

-----------------------------------------------------------------------------
(* Inputs *)

MaxRows == 2

\* the header line as the renaming map expects it
ExpectedHeaders == RenameFrom

\* what the eighth header, the population growth column, may read
PopulationGrowthHeaders ==
    { "Population Growth (annual %)", "Population Growth (%)", "Population Growth" }

HeaderLines == { [ExpectedHeaders EXCEPT ![8] = h] : h \in PopulationGrowthHeaders }

\* the string forms of the year cells
YearTokens ==
    { <<"1", "9", "9", "9">>,
      <<"2", "0", "2", "3">>,
      <<"Y", "2", "0", "2", "4">>,
      <<"2", "0", "x", "3">> }

\* the cells of one line: the GDP cell and the cell of every other indicator
CellPairs ==
    { [gdp |-> Whole(0), other |-> Whole(0)],
      [gdp |-> Whole(100), other |-> Num(150, 25)],
      [gdp |-> Num(150, 50), other |-> NaN],
      [gdp |-> Whole(1500), other |-> Junk] }

Lines ==
    { [year |-> t, gdp |-> p.gdp, other |-> p.other] : t \in YearTokens, p \in CellPairs }

Files ==
    { [headers |-> h, rows |-> r] :
        h \in HeaderLines,
        r \in UNION { [1..n -> Lines] : n \in 0..MaxRows } }

\* the values a user is taken to move a slider to
YearPicks == {1999, 2000, 2023}

\* the options a user is taken to choose in a selectbox
IndicatorPicks == {"Fertility Rate", "GDP (US$)"}

-----------------------------------------------------------------------------
(* nigeria_dashboard_app.py: the script, one run per interaction *)

NoCache == [hit |-> FALSE, df |-> NoFrame]

NoViews == [trend |-> "", comparison |-> "", relationship |-> ""]

NoText == [txt |-> <<>>, suffix |-> ""]

NoMetrics == [initial |-> NoText, final |-> NoText, delta |-> [k |-> "none", txt |-> <<>>]]

DefaultStart == 1999

DefaultEnd == 2023

default_x == "GDP (US$)"

default_y == "Population Growth"

Years(d) == { d.rows[i].Year : i \in DOMAIN d.rows }

\* a slider that takes any default value
SliderAccepts_any(lo, hi, value) == TRUE

\* st.slider(min_value, max_value, value): Streamlit refuses a default value
\* outside [min_value, max_value]
SliderAccepts(lo, hi, value) == lo <= value /\ value <= hi

\* the values the slider lets the user select
SliderRange(lo, hi) == lo..hi

\* the outputs of a run, as a fresh run starts
FreshRun ==
    /\ error' = ""
    /\ entered' = FALSE
    /\ validation' = FALSE
    /\ views' = NoViews
    /\ metrics' = NoMetrics
    /\ df' = NoFrame
    /\ data' = NoFrame
    /\ display_df' = NoFrame
    /\ line_data' = NoFrame

\* an exception ends the run; the widgets it did not reach lose their state
Fail(e, kept) ==
    /\ error' = e
    /\ pc' = "failed"
    /\ widgets' = widgets \cap kept

\* load_and_process_data_cached(): nothing cached yet
CacheMiss ==
    /\ pc = "main"
    /\ ~cache.hit
    /\ pc' = "read_csv"
    /\ UNCHANGED <<file, df, error, cache, first_table, data, display_df, line_data, widgets,
                   start_year, end_year, indicator, x_indicator, y_indicator,
                   entered, validation, views, metrics, arg, ret>>

\* load_and_process_data_cached(): the cached table is handed out
CacheHit ==
    /\ pc = "main"
    /\ cache.hit
    /\ data' = cache.df
    /\ pc' = "expander"
    /\ UNCHANGED <<file, df, error, cache, first_table, display_df, line_data, widgets,
                   start_year, end_year, indicator, x_indicator, y_indicator,
                   entered, validation, views, metrics, arg, ret>>

LoadReadCsv ==
    /\ pc = "read_csv"
    /\ df' = ReadCsv(file)
    /\ pc' = "rename"
    /\ UNCHANGED <<file, error, cache, first_table, data, display_df, line_data, widgets,
                   start_year, end_year, indicator, x_indicator, y_indicator,
                   entered, validation, views, metrics, arg, ret>>

LoadRename ==
    /\ pc = "rename"
    /\ df' = RenameColumns(df)
    /\ pc' = "year"
    /\ UNCHANGED <<file, error, cache, first_table, data, display_df, line_data, widgets,
                   start_year, end_year, indicator, x_indicator, y_indicator,
                   entered, validation, views, metrics, arg, ret>>

LoadYear ==
    /\ pc = "year"
    /\ LET r == NormalizeYear(df)
       IN  IF r.err = ""
           THEN df' = r.df /\ pc' = "astype" /\ UNCHANGED <<error, widgets>>
           ELSE df' = df /\ Fail(r.err, {})
    /\ UNCHANGED <<file, cache, first_table, data, display_df, line_data,
                   start_year, end_year, indicator, x_indicator, y_indicator,
                   entered, validation, views, metrics, arg, ret>>

LoadAsType ==
    /\ pc = "astype"
    /\ LET r == AsType(df)
       IN  IF r.err = ""
           THEN df' = r.df /\ pc' = "gdp" /\ UNCHANGED <<error, widgets>>
           ELSE df' = df /\ Fail(r.err, {})
    /\ UNCHANGED <<file, cache, first_table, data, display_df, line_data,
                   start_year, end_year, indicator, x_indicator, y_indicator,
                   entered, validation, views, metrics, arg, ret>>

LoadGdp ==
    /\ pc = "gdp"
    /\ df' = FormatGdp(df)
    /\ pc' = "mask"
    /\ UNCHANGED <<file, error, cache, first_table, data, display_df, line_data, widgets,
                   start_year, end_year, indicator, x_indicator, y_indicator,
                   entered, validation, views, metrics, arg, ret>>

\* the masking loop and the return; the result is cached and handed to main
LoadMask ==
    /\ pc = "mask"
    /\ df' = MaskZeros(df)
    /\ cache' = [hit |-> TRUE, df |-> df']
    /\ first_table' = df'
    /\ data' = df'
    /\ pc' = "expander"
    /\ UNCHANGED <<file, error, display_df, line_data, widgets,
                   start_year, end_year, indicator, x_indicator, y_indicator,
                   entered, validation, views, metrics, arg, ret>>

\* with st.expander("See full data table")
ShowTable ==
    /\ pc = "expander"
    /\ data' = Expander(data).data
    /\ display_df' = Expander(data).display_df
    /\ pc' = "controls"
    /\ UNCHANGED <<file, df, error, cache, first_table, line_data, widgets,
                   start_year, end_year, indicator, x_indicator, y_indicator,
                   entered, validation, views, metrics, arg, ret>>

\* the two sliders and the indicator selectbox; int(NaN) of an empty table
\* is a ValueError
Controls ==
    /\ pc = "controls"
    /\ IF Years(data) = {}
       THEN /\ Fail("ValueError", {})
            /\ UNCHANGED <<start_year, end_year, indicator>>
       ELSE LET lo == MinOf(Years(data))
                hi == MaxOf(Years(data))
            IN  IF SliderAccepts(lo, hi, DefaultStart) /\ SliderAccepts(lo, hi, DefaultEnd)
                THEN /\ start_year' = IF "start" \in widgets THEN start_year ELSE DefaultStart
                     /\ end_year' = IF "end" \in widgets THEN end_year ELSE DefaultEnd
                     /\ indicator' = IF "indicator" \in widgets THEN indicator
                                     ELSE IndicatorOptions(data)[1]
                     /\ widgets' = widgets \cup {"start", "end", "indicator"}
                     /\ pc' = "validate"
                     /\ error' = error
                ELSE /\ Fail("StreamlitAPIException", {})
                     /\ UNCHANGED <<start_year, end_year, indicator>>
    /\ UNCHANGED <<file, df, cache, first_table, data, display_df, line_data,
                   x_indicator, y_indicator,
                   entered, validation, views, metrics, arg, ret>>

\* if end_before_start(start_year, end_year): st.error(...) else: display_dashboard(...)
Validate ==
    /\ pc = "validate"
    /\ IF end_before_start(start_year, end_year)
       THEN /\ validation' = TRUE
            /\ entered' = entered
            /\ widgets' = widgets \cap {"start", "end", "indicator"}
            /\ x_indicator' = ""
            /\ y_indicator' = ""
            /\ pc' = "done"
       ELSE /\ validation' = validation
            /\ entered' = TRUE
            /\ widgets' = widgets
            /\ UNCHANGED <<x_indicator, y_indicator>>
            /\ pc' = "tab1"
    /\ UNCHANGED <<file, df, error, cache, first_table, data, display_df, line_data,
                   start_year, end_year, indicator,
                   views, metrics, arg, ret>>

\* Tab 1: the trend chart, or the "no data" notice
Tab1 ==
    /\ pc = "tab1"
    /\ views' = [views EXCEPT !.trend =
                   IF FilterYears(data, start_year, end_year).rows # <<>>
                   THEN "chart" ELSE "no data"]
    /\ pc' = "tab2"
    /\ UNCHANGED <<file, df, error, cache, first_table, data, display_df, line_data, widgets,
                   start_year, end_year, indicator, x_indicator, y_indicator,
                   entered, validation, metrics, arg, ret>>

\* Tab 2: the two metrics, then the bar chart.  Two absent years make the
\* "Value" column of comparison_df an object column of None, and
\* format_large_numbers(None) is a TypeError.
Tab2 ==
    /\ pc = "tab2"
    /\ LET initial_value == ValueAt(data, start_year, indicator)
           final_value == ValueAt(data, end_year, indicator)
       IN  /\ metrics' =
                [initial |-> IF initial_value.k # "none"
                             THEN format_large_numbers(initial_value) ELSE NoText,
                 final |-> IF final_value.k # "none"
                           THEN format_large_numbers(final_value) ELSE NoText,
                 delta |-> IF final_value.k # "none"
                           THEN Delta(initial_value, final_value)
                           ELSE [k |-> "none", txt |-> <<>>]]
           /\ IF initial_value.k = "none" /\ final_value.k = "none"
              THEN /\ Fail("TypeError", {"start", "end", "indicator"})
                   /\ x_indicator' = ""
                   /\ y_indicator' = ""
                   /\ views' = views
              ELSE /\ views' = [views EXCEPT !.comparison = "chart"]
                   /\ pc' = "tab3"
                   /\ UNCHANGED <<error, widgets, x_indicator, y_indicator>>
    /\ UNCHANGED <<file, df, cache, first_table, data, display_df, line_data,
                   start_year, end_year, indicator,
                   entered, validation, arg, ret>>

\* Tab 3: list.index(default) is a ValueError when the default is no option
Tab3 ==
    /\ pc = "tab3"
    /\ LET related_indicators == Range(IndicatorOptions(data))
       IN  IF default_x \in related_indicators /\ default_y \in related_indicators
           THEN LET x == IF "x" \in widgets THEN x_indicator ELSE default_x
                    y == IF "y" \in widgets THEN y_indicator ELSE default_y
                    r == Relationship(data, start_year, end_year, x, y)
                IN  /\ x_indicator' = x
                    /\ y_indicator' = y
                    /\ widgets' = widgets \cup {"x", "y"}
                    /\ data' = r.data
                    /\ line_data' = r.line_data
                    /\ views' = [views EXCEPT !.relationship =
                                   IF r.line_data.rows # <<>> THEN "chart" ELSE "no data"]
                    /\ pc' = "done"
                    /\ error' = error
           ELSE /\ Fail("ValueError", {"start", "end", "indicator"})
                /\ UNCHANGED <<x_indicator, y_indicator, data, line_data, views>>
    /\ UNCHANGED <<file, df, cache, first_table, display_df,
                   start_year, end_year, indicator,
                   entered, validation, metrics, arg, ret>>

Idle == pc \in {"done", "failed"}

\* the user moves the "Start Year" slider: the script runs again
ChangeStartYear ==
    /\ Idle
    /\ "start" \in widgets
    /\ \E y \in SliderRange(MinOf(Years(cache.df)), MaxOf(Years(cache.df))) \cap YearPicks :
          /\ y # start_year
          /\ start_year' = y
    /\ pc' = "main"
    /\ FreshRun
    /\ UNCHANGED <<file, cache, first_table, widgets, end_year, indicator,
                   x_indicator, y_indicator, arg, ret>>

\* the user moves the "End Year" slider
ChangeEndYear ==
    /\ Idle
    /\ "end" \in widgets
    /\ \E y \in SliderRange(MinOf(Years(cache.df)), MaxOf(Years(cache.df))) \cap YearPicks :
          /\ y # end_year
          /\ end_year' = y
    /\ pc' = "main"
    /\ FreshRun
    /\ UNCHANGED <<file, cache, first_table, widgets, start_year, indicator,
                   x_indicator, y_indicator, arg, ret>>

\* the user chooses another primary indicator
ChangeIndicator ==
    /\ Idle
    /\ "indicator" \in widgets
    /\ \E c \in Range(IndicatorOptions(cache.df)) \cap IndicatorPicks :
          /\ c # indicator
          /\ indicator' = c
    /\ pc' = "main"
    /\ FreshRun
    /\ UNCHANGED <<file, cache, first_table, widgets, start_year, end_year,
                   x_indicator, y_indicator, arg, ret>>

\* the user chooses another X-axis indicator
ChangeX ==
    /\ Idle
    /\ "x" \in widgets
    /\ \E c \in Range(IndicatorOptions(cache.df)) \cap IndicatorPicks :
          /\ c # x_indicator
          /\ x_indicator' = c
    /\ pc' = "main"
    /\ FreshRun
    /\ UNCHANGED <<file, cache, first_table, widgets, start_year, end_year, indicator,
                   y_indicator, arg, ret>>

\* the user chooses another Y-axis indicator
ChangeY ==
    /\ Idle
    /\ "y" \in widgets
    /\ \E c \in Range(IndicatorOptions(cache.df)) \cap IndicatorPicks :
          /\ c # y_indicator
          /\ y_indicator' = c
    /\ pc' = "main"
    /\ FreshRun
    /\ UNCHANGED <<file, cache, first_table, widgets, start_year, end_year, indicator,
                   x_indicator, arg, ret>>

Blank ==
    /\ df = NoFrame
    /\ error = ""
    /\ cache = NoCache
    /\ first_table = NoFrame
    /\ data = NoFrame
    /\ display_df = NoFrame
    /\ line_data = NoFrame
    /\ widgets = {}
    /\ start_year = DefaultStart
    /\ end_year = DefaultEnd
    /\ indicator = ""
    /\ x_indicator = ""
    /\ y_indicator = ""
    /\ entered = FALSE
    /\ validation = FALSE
    /\ views = NoViews
    /\ metrics = NoMetrics

Init ==
    /\ file \in Files
    /\ pc = "main"
    /\ Blank
    /\ arg = NoFrame
    /\ ret = NoFrame

Next ==
    \/ CacheMiss
    \/ CacheHit
    \/ LoadReadCsv
    \/ LoadRename
    \/ LoadYear
    \/ LoadAsType
    \/ LoadGdp
    \/ LoadMask
    \/ ShowTable
    \/ Controls
    \/ Validate
    \/ Tab1
    \/ Tab2
    \/ Tab3
    \/ ChangeStartYear
    \/ ChangeEndYear
    \/ ChangeIndicator
    \/ ChangeX
    \/ ChangeY

Spec == Init /\ [][Next]_vars

-----------------------------------------------------------------------------
(* display_dashboard called on its own *)

\* the column names of a prepared table: as the renaming produces them, and
\* as the type cast requires them
PreparedColumns ==
    { [RenameTo EXCEPT ![8] = h] : h \in {"Population Growth (%)", "Population Growth"} }

PreparedPairs == { p \in CellPairs : p.gdp.k # "str" /\ p.other.k # "str" }

PreparedRows(cols) ==
    { [Year |-> y,
       v |-> [c \in Range(cols) \ {"Year"} |->
                IF c = "GDP (US$)" THEN Round0(p.gdp) ELSE p.other]] :
        y \in YearPicks, p \in PreparedPairs }

PreparedFrames ==
    UNION { { [cols |-> cols, rows |-> r] :
                r \in UNION { [1..n -> PreparedRows(cols)] : n \in 0..MaxRows } } :
            cols \in PreparedColumns }

InitDashboard ==
    /\ file = [headers |-> <<>>, rows |-> <<>>]
    /\ df = NoFrame
    /\ error = ""
    /\ cache = NoCache
    /\ first_table = NoFrame
    /\ data \in PreparedFrames
    /\ display_df = NoFrame
    /\ line_data = NoFrame
    /\ widgets = {"start", "end", "indicator"}
    /\ start_year \in YearPicks
    /\ end_year \in YearPicks
    /\ ~end_before_start(start_year, end_year)
    /\ indicator \in IndicatorPicks
    /\ x_indicator = ""
    /\ y_indicator = ""
    /\ entered = TRUE
    /\ validation = FALSE
    /\ views = NoViews
    /\ metrics = NoMetrics
    /\ arg = NoFrame
    /\ ret = NoFrame
    /\ pc = "tab1"

NextDashboard ==
    \/ Tab1
    \/ Tab2
    \/ Tab3

SpecDashboard == InitDashboard /\ [][NextDashboard]_vars

-----------------------------------------------------------------------------
(* The helpers called on their own *)

MaxTokenLen == 5

YearAlphabet == {"0", "2", "3", "x", "-", "_", " "}

Tokens == UNION { [1..n -> YearAlphabet] : n \in 0..MaxTokenLen }

\* a frame of one line whose year cell has the string form t
YearFrame(t) == [cols |-> <<"Year">>, rows |-> << [Year |-> t, v |-> <<>>] >>]

InitYear ==
    /\ file = [headers |-> <<>>, rows |-> <<>>]
    /\ Blank
    /\ pc = "call"
    /\ \E t \in Tokens : arg = YearFrame(t)
    /\ ret = NoFrame

\* df["Year"] = df["Year"].apply(lambda x: int(str(x)[-4:]))
ApplyYear ==
    /\ pc = "call"
    /\ ret' = NormalizeYear(arg)
    /\ pc' = "returned"
    /\ UNCHANGED <<file, df, error, cache, first_table, data, display_df, line_data, widgets,
                   start_year, end_year, indicator, x_indicator, y_indicator,
                   entered, validation, views, metrics, arg>>

NextYear == ApplyYear

SpecYear == InitYear /\ [][NextYear]_vars

MaxMantissa == 52

RECURSIVE Pow10(_)
Pow10(e) == IF e = 0 THEN 1 ELSE 10 * Pow10(e - 1)

\* mantissa and exponent of the whole parts, up to two billion
Magnitudes ==
    { me \in (1..MaxMantissa) \X (0..9) : me[1] <= 2000000000 \div Pow10(me[2]) }

\* the inputs: m * 10^e - 1, m * 10^e and m * 10^e + 1, with some hundredths
FormatInputs ==
    { Num(me[1] * Pow10(me[2]) + d, c) :
        me \in Magnitudes, d \in {-1, 0, 1}, c \in {0, 20, 99} }

InitFormat ==
    /\ file = [headers |-> <<>>, rows |-> <<>>]
    /\ Blank
    /\ pc = "call"
    /\ arg \in FormatInputs
    /\ ret = NoFrame

ApplyFormat ==
    /\ pc = "call"
    /\ ret' = format_large_numbers(arg)
    /\ pc' = "returned"
    /\ UNCHANGED <<file, df, error, cache, first_table, data, display_df, line_data, widgets,
                   start_year, end_year, indicator, x_indicator, y_indicator,
                   entered, validation, views, metrics, arg>>

NextFormat == ApplyFormat

SpecFormat == InitFormat /\ [][NextFormat]_vars

MaxColumn == 3

NormCells == { NaN, Num(-2, 50), Whole(0), Num(0, 25), Whole(3) }

\* a frame of one indicator column holding col
ColumnFrame(col) ==
    [cols |-> <<"Year", "GDP (US$)">>,
     rows |-> [i \in DOMAIN col |->
                 [Year |-> 2000 + i, v |-> [c \in {"GDP (US$)"} |-> col[i]]]]]

InitNormalize ==
    /\ file = [headers |-> <<>>, rows |-> <<>>]
    /\ Blank
    /\ pc = "call"
    /\ \E col \in UNION { [1..n -> NormCells] : n \in 0..MaxColumn } :
          arg = ColumnFrame(col)
    /\ ret = NoFrame

ApplyNormalize ==
    /\ pc = "call"
    /\ ret' = min_max_normalize(arg, "GDP (US$)")
    /\ pc' = "returned"
    /\ UNCHANGED <<file, df, error, cache, first_table, data, display_df, line_data, widgets,
                   start_year, end_year, indicator, x_indicator, y_indicator,
                   entered, validation, views, metrics, arg>>

NextNormalize == ApplyNormalize

SpecNormalize == InitNormalize /\ [][NextNormalize]_vars

-----------------------------------------------------------------------------
(* Properties *)

AllViews == views.trend # "" /\ views.comparison # "" /\ views.relationship # ""

\* C1: end_before_start(start, end) is true exactly when start > end; when
\* it is, main shows the validation message, never enters display_dashboard
\* and renders no view; when start <= end (start = end included) it enters
\* display_dashboard, shows no validation message, and a run that completes
\* has rendered the three views.
C1_ValidationGate ==
    /\ \A s \in YearPicks \cup {2005} : \A e \in YearPicks \cup {2005} :
          end_before_start(s, e) <=> s > e
    /\ ~(entered /\ validation)
    /\ validation => start_year > end_year /\ views = NoViews /\ pc = "done"
    /\ entered => start_year <= end_year
    /\ views # NoViews => entered
    /\ pc \in {"tab1", "tab2", "tab3"} => entered
    /\ pc = "done" => (validation <=> start_year > end_year)
    /\ pc = "done" => (entered <=> start_year <= end_year)
    /\ pc = "done" /\ start_year <= end_year => AllViews

C1_Witness ==
    /\ pc = "done"
    /\ cache.hit
    /\ validation
    /\ start_year > end_year

C1_WitnessEqualYears ==
    /\ pc = "done"
    /\ cache.hit
    /\ start_year = end_year
    /\ AllViews

\* C2: in the table load_and_process_data returns, a row of year 2023 holds
\* no exact 0 in a non-Year column (each such zero has become NaN, every
\* other cell is as before the masking loop), a row of another year is as
\* before the masking loop, zeros included, and the Year column is as before.
C2_MaskOnly2023 ==
    pc = "expander" =>
        LET b == BeforeMask(file).df
        IN  /\ data.cols = b.cols
            /\ DOMAIN data.rows = DOMAIN b.rows
            /\ \A i \in DOMAIN data.rows :
                  /\ data.rows[i].Year = b.rows[i].Year
                  /\ DOMAIN data.rows[i].v = DOMAIN b.rows[i].v
                  /\ \A c \in DOMAIN data.rows[i].v :
                        IF data.rows[i].Year = 2023
                        THEN /\ ~IsZero(data.rows[i].v[c])
                             /\ IsZero(b.rows[i].v[c]) => data.rows[i].v[c] = NaN
                             /\ ~IsZero(b.rows[i].v[c]) =>
                                   data.rows[i].v[c] = b.rows[i].v[c]
                        ELSE data.rows[i].v[c] = b.rows[i].v[c]

C2_Witness ==
    /\ pc = "expander"
    /\ \E i \in DOMAIN data.rows : \E c \in DOMAIN data.rows[i].v :
          /\ data.rows[i].Year = 2023
          /\ IsZero(BeforeMask(file).df.rows[i].v[c])
          /\ data.rows[i].v[c] = NaN
    /\ \E i \in DOMAIN data.rows : \E c \in DOMAIN data.rows[i].v :
          /\ data.rows[i].Year # 2023
          /\ IsZero(data.rows[i].v[c])

\* a file of well-formed values: four-digit years, numeric or empty cells
WellFormed(f) ==
    \A i \in DOMAIN f.rows :
        /\ Len(f.rows[i].year) = 4
        /\ \A j \in 1..4 : f.rows[i].year[j] \in DigitChars
        /\ f.rows[i].gdp.k # "str"
        /\ f.rows[i].other.k # "str"

\* C3: a file with exactly the expected headers and well-formed values is
\* loaded without a fatal error, and the columns of the result are exactly
\* the columns the type cast names.
C3_ExpectedSchemaLoads ==
    file.headers = ExpectedHeaders /\ WellFormed(file) =>
        /\ ~(pc = "failed" /\ ~cache.hit)
        /\ cache.hit => Range(cache.df.cols) = convert_dtype

\* C4: with the end-year metric shown, the percent change is omitted when
\* the start value is missing or exactly zero or the end value is missing,
\* and is otherwise the two-decimal percentage (100 to 150: "50.00%").
C4_PercentChangeGuarded ==
    pc \in {"tab3", "done"} /\ entered =>
        LET initial_value == ValueAt(data, start_year, indicator)
            final_value == ValueAt(data, end_year, indicator)
        IN  final_value.k # "none" =>
                IF ~IsNum(initial_value) \/ ~IsNum(final_value) \/ IsZero(initial_value)
                THEN metrics.delta.k = "none"
                ELSE /\ metrics.delta.k = "pct"
                     /\ Hund(initial_value) = 10000 /\ Hund(final_value) = 15000 =>
                           metrics.delta.txt = <<"5", "0", ".", "0", "0", "%">>

C6_NormalizedRange ==
    pc = "returned" =>
        LET col == Column(arg, "GDP (US$)")
            present == { i \in DOMAIN col : IsNum(col[i]) }
        IN  /\ DOMAIN ret = DOMAIN col
            /\ IF \E i \in present : \E j \in present : col[i] # col[j]
               THEN \A i \in DOMAIN col :
                      IF i \in present
                      THEN /\ ret[i].k = "ratio"
                           /\ ret[i].c > 0
                           /\ 0 <= ret[i].w
                           /\ ret[i].w <= ret[i].c
                           /\ (\A j \in present : Hund(col[i]) <= Hund(col[j])) =>
                                 ret[i].w = 0
                           /\ (\A j \in present : Hund(col[i]) >= Hund(col[j])) =>
                                 ret[i].w = ret[i].c
                      ELSE ret[i] = NaN
               ELSE present # {} => ret = col

C6_Witness ==
    /\ pc = "returned"
    /\ \E i \in DOMAIN ret : ret[i].k = "ratio" /\ 0 < ret[i].w /\ ret[i].w < ret[i].c
    /\ \E i \in DOMAIN ret : ret[i].k = "ratio" /\ ret[i].w = 0
    /\ \E i \in DOMAIN ret : ret[i].k = "ratio" /\ ret[i].w = ret[i].c

C6_WitnessConstant ==
    /\ pc = "returned"
    /\ Len(ret) > 1
    /\ \A i \in DOMAIN ret : ret[i] = Num(0, 25)

Numeric(s) ==
    LET t == Strip(s)
    IN  /\ t # <<>>
        /\ t[1] \in DigitChars \cup {"+", "-"}
        /\ \A i \in 2..Len(t) : t[i] \in DigitChars
        /\ t[Len(t)] \in DigitChars

\* C8: a year token of at least four characters that ends in four digits
\* yields the integer those four digits spell; one whose last four
\* characters are not numeric makes the load fail.
C8_LastFourCharacters ==
    pc = "returned" =>
        LET s == arg.rows[1].Year
            n == Len(s)
        IN  n >= 4 =>
              IF \A i \in (n - 3)..n : s[i] \in DigitChars
              THEN /\ ret.err = ""
                   /\ ret.df.rows[1].Year =
                        1000 * DigitVal(s[n - 3]) + 100 * DigitVal(s[n - 2])
                        + 10 * DigitVal(s[n - 1]) + DigitVal(s[n])
              ELSE ~Numeric(SubSeq(s, n - 3, n)) => ret.err = "ValueError"

\* the hundredths a text "d...d.dd" spells
TextHundredths(t) ==
    DigitsValue(SubSeq(t, 1, Len(t) - 3) \o SubSeq(t, Len(t) - 1, Len(t)))

\* C9: a non-negative value is shown in the largest unit it reaches
\* (thresholds 1e9, 1e6, 1e3 inclusive), as the nearest number of two
\* decimal digits followed by the unit's suffix; below 1e3 it is the raw
\* value with two decimal digits and no suffix.
C9_LargestUnit ==
    pc = "returned" =>
        LET u == IF arg.w >= 1000000000 THEN 10000000
                 ELSE IF arg.w >= 1000000 THEN 10000
                 ELSE IF arg.w >= 1000 THEN 10
                 ELSE 0
            n == Len(ret.txt)
        IN  /\ ret.suffix = IF arg.w >= 1000000000 THEN " Billion"
                            ELSE IF arg.w >= 1000000 THEN " Million"
                            ELSE IF arg.w >= 1000 THEN " Thousand"
                            ELSE ""
            /\ n >= 4
            /\ ret.txt[n - 2] = "."
            /\ \A i \in (1..n) \ {n - 2} : ret.txt[i] \in DigitChars
            /\ IF u = 0
               THEN TextHundredths(ret.txt) = arg.w * 100 + arg.c
               ELSE LET diff == arg.w - TextHundredths(ret.txt) * u
                    IN  /\ 2 * diff >= -u
                        /\ 2 * diff < u \/ (2 * diff = u /\ arg.c = 0)

C9_Witness ==
    /\ pc = "returned"
    /\ arg = Whole(1000000000)
    /\ ret = [txt |-> <<"1", ".", "0", "0">>, suffix |-> " Billion"]

C9_WitnessExamples ==
    /\ pc = "returned"
    /\ \/ arg = Whole(3400000) /\ ret = [txt |-> <<"3", ".", "4", "0">>, suffix |-> " Million"]
       \/ arg = Whole(5200) /\ ret = [txt |-> <<"5", ".", "2", "0">>, suffix |-> " Thousand"]
       \/ arg = Whole(42) /\ ret = [txt |-> <<"4", "2", ".", "0", "0">>, suffix |-> ""]

\* C10: whatever the user does, the cached table is the table the first
\* load produced and the table main holds is that table: the raw-data
\* table and the three views write to copies only.
C10_PreparedTableUnchanged ==
    cache.hit =>
        /\ cache.df = first_table
        /\ data # NoFrame => data = first_table
        /\ pc = "expander" => first_table = load_and_process_data(file).df

C10_Witness ==
    /\ pc = "done"
    /\ cache.hit
    /\ x_indicator # default_x
    /\ indicator # IndicatorOptions(data)[1]
    /\ views.relationship = "chart"
    /\ line_data # FilterYears(data, start_year, end_year)
    /\ display_df # NoFrame

====
